---- MODULE Spec2Model ----
(***************************************************************************)
(* Model of src/main.rs: main, process_one, load_tif_contents and lerp.     *)
(*                                                                         *)
(* Number representation.  The program computes in f64.  The model keeps   *)
(* every quantity on an integer grid:                                      *)
(*   - pixel positions and grid indices are plain integers;                *)
(*   - longitudes, latitudes, bin sizes and cell anchors are in arc        *)
(*     minutes (1/60 degree), so that lerp is exact for every raster of    *)
(*     at most 6 columns and 6 rows;                                       *)
(*   - values (the third tuple component) are in units of 1/Scale;         *)
(*   - angles in radians and cosines are in units of 1/Scale.              *)
(* f64 rounding (relative 2^-53) is below the grid and is not modelled;    *)
(* the narrowing `as f32` and the saturating `as i32` are.                 *)
(***************************************************************************)
EXTENDS Integers, Sequences, FiniteSets, TLC

\* ------------------------------------------------------------------ bounds

\* Largest number of pixels (width * height) of a decoded raster.
MaxPixels == 4

\* Largest number of input paths on the command line.
MaxFiles == 2

\* ------------------------------------------------------------- number grid

\* Arc minutes per degree: the unit of every coordinate.
Deg == 6 * 10

\* Fixed-point unit of values, radians and cosines.
Scale == 10 * 1000

\* Range of i32, the target of the `as i32` casts of lines 70-71.
I32_MAX == 2147483647
I32_MIN == -2147483647 - 1

Abs(n) == IF n < 0 THEN -n ELSE n

\* A division whose quotient is cast without .floor(): rounds toward zero.
TruncDiv(a, b) ==
    LET q == Abs(a) \div Abs(b)
    IN  IF (a < 0) = (b < 0) THEN q ELSE -q

\* floor(a / b) for b # 0, as f64 division followed by .floor().
FloorDiv(a, b) == IF b > 0 THEN a \div b ELSE (-a) \div (-b)

\* (a / b).floor() as i32 (lines 70-71).  Division by 0.0 gives +inf, -inf
\* or NaN; the cast saturates the infinities and sends NaN to 0.
FloorDivAsI32(a, b) ==
    IF b = 0
    THEN (IF a > 0 THEN I32_MAX ELSE IF a < 0 THEN I32_MIN ELSE 0)
    ELSE LET q == FloorDiv(a, b)
         IN  IF q > I32_MAX THEN I32_MAX ELSE IF q < I32_MIN THEN I32_MIN ELSE q

\* index as f64 * group (lines 72-73).
IndexTimesGroup(index, g) == index * g

\* f64::to_radians: degrees * pi / 180, here arc minutes -> 1/Scale radians
\* (pi = 31416 / Scale), rounded toward zero.
to_radians(latMin) ==
    LET r == (Abs(latMin) * 31416) \div (180 * Deg)
    IN  IF latMin < 0 THEN -r ELSE r

\* f64::cos as its Taylor polynomial in fixed point; x in 1/Scale radians,
\* |x| <= pi/2, the result in 1/Scale.
RECURSIVE CosTerms(_, _, _, _)
CosTerms(x2, term, k, n) ==
    IF k > n THEN 0
    ELSE term + CosTerms(x2, -((term * x2) \div (Scale * (2 * k - 1) * (2 * k))), k + 1, n)

cos(x) == CosTerms((x * x) \div Scale, Scale, 1, 7)

\* `as f32`: round to 24 significant bits, ties to even.
RECURSIVE Pow2Above(_, _)
Pow2Above(n, q) == IF n < 16777216 * q THEN q ELSE Pow2Above(n, 2 * q)

AsF32(n) ==
    LET a    == Abs(n)
        q    == Pow2Above(a, 1)
        r    == a % q
        base == a - r
        up   == IF 2 * r > q THEN TRUE
                ELSE IF 2 * r < q THEN FALSE
                ELSE (base \div q) % 2 = 1
        m    == IF up THEN base + q ELSE base
    IN  IF n < 0 THEN -m ELSE m

\* A lerp that leaves out the offset of the range.
lerp_no_offset(v, domain, range) ==
    ((v - domain[1]) * (range[2] - range[1])) \div (domain[2] - domain[1])

\* lerp (lines 144-146): (v - d0) / (d1 - d0) * (r1 - r0) + r0.  The
\* product is taken before the quotient so that the integer division is
\* exact; over the reals the two orders agree.
lerp(v, domain, range) ==
    ((v - domain[1]) * (range[2] - range[1])) \div (domain[2] - domain[1]) + range[1]

\* ------------------------------------------------------------------ inputs

\* Option<f64> of --group: None, or Some bin size in arc minutes
\* (-180 degrees, 0 and 180 degrees).
None == <<>>
Some(g) == <<g>>
GroupSizes == {-180 * Deg, 0, 180 * Deg}
GroupOptions == {None} \cup {Some(g) : g \in GroupSizes}

\* path.extension() of an input path; NoExt is a path without extension.
NoExt == "<none>"
Extensions == {"tif", "tiff", "zip", "txt", NoExt}

\* Member names of a zip archive, each given by the suffix that
\* n.ends_with() of line 128 looks at.
ZipListings ==
    {<<>>, <<".txt">>, <<".tif">>, <<".tiff">>, <<".tif", ".tiff">>, <<".txt", ".tif">>}

\* Sample values of an I32 raster.
PixelValues == {-1, 0, 2}

\* DecodingResult variants other than I32 (lines 100-111).
OtherTypes == {"U8", "U16", "U32", "U64", "F32", "F64", "I8", "I16", "I64"}

Shapes == {wh \in (1..MaxPixels) \X (1..MaxPixels) : wh[1] * wh[2] <= MaxPixels}

\* What the bytes of an input decode to: an I32 raster of any shape within
\* the bound, a raster of another sample type, or nothing (malformed bytes).
I32Images ==
    UNION {[dtype : {"I32"}, width : {wh[1]}, height : {wh[2]},
            pixels : [1..(wh[1] * wh[2]) -> PixelValues]] : wh \in Shapes}

OtherImages == [dtype : OtherTypes, width : {1}, height : {1}, pixels : {<<1>>}]

Garbage == [dtype |-> "garbage", width |-> 0, height |-> 0, pixels |-> <<>>]

FileContents == I32Images \cup OtherImages \cup {Garbage}

NoBytes  == [dtype |-> "none", width |-> 0, height |-> 0, pixels |-> <<>>]
NoImage  == NoBytes
NoBatch  == [lon |-> <<>>, lat |-> <<>>, value |-> <<>>]
NoError  == <<"no error">>
Absent  == [state |-> "absent", table |-> NoBatch]

\* ------------------------------------------------------------------- state

VARIABLES
    nPaths,        \* cli.input_path.len()
    group,         \* cli.group
    fileNo,        \* number of input paths main has pulled from the iterator
    rerun,         \* the current input path is the previous one again
    ext,           \* extension of the current input path
    pc,            \* position in main / process_one
    tif_contents,  \* process_one: tif_contents (what the bytes decode to)
    image,         \* process_one: width, height, image
    data,          \* process_one: data
    grouped,       \* process_one: grouped, the HashMap
    i,             \* process_one: position of the loop of line 69 in data
    batch,         \* process_one: batch
    outFile,       \* the file at input_path.with_extension("parquet")
    created,       \* File::create of this call of process_one succeeded
    prevOut,       \* on a rerun, the table the previous run wrote
    results,       \* the Results main's collect has seen, in order
    error          \* the error process_one returned

vars == <<nPaths, group, fileNo, rerun, ext, pc, tif_contents, image, data,
          grouped, i, batch, outFile, created, prevOut, results, error>>

EmptyMap == [k \in {} |-> <<0, 0, 0>>]

Init ==
    /\ nPaths \in 0..MaxFiles
    /\ group \in GroupOptions
    /\ fileNo = 0
    /\ rerun = FALSE
    /\ ext = NoExt
    /\ pc = "next"
    /\ tif_contents = NoBytes
    /\ image = NoImage
    /\ data = <<>>
    /\ grouped = EmptyMap
    /\ i = 1
    /\ batch = NoBatch
    /\ outFile = Absent
    /\ created = FALSE
    /\ prevOut = NoBatch
    /\ results = <<>>
    /\ error = NoError

\* ------------------------------------------------------------------- main

\* process_one returns Err(e): collect::<Result<Vec<_>>>() stops pulling
\* from the iterator and main returns the error through `?` (lines 27-30).
Fail(e) ==
    /\ error' = e
    /\ results' = Append(results, "err")
    /\ pc' = "exit_err"

\* The iterator yields the next input path and the closure calls
\* process_one (line 29).  The path is a new one, or the previous path again.
MainNext ==
    /\ pc = "next"
    /\ fileNo < nPaths
    /\ fileNo' = fileNo + 1
    /\ pc' = "load"
    /\ \/ /\ rerun' = FALSE
          /\ ext' \in Extensions
          /\ tif_contents' = NoBytes
          /\ outFile' = Absent
          /\ prevOut' = NoBatch
       \/ /\ fileNo >= 1
          /\ rerun' = TRUE
          /\ prevOut' = outFile.table
          /\ UNCHANGED <<ext, tif_contents, outFile>>
    /\ image' = NoImage
    /\ data' = <<>>
    /\ grouped' = EmptyMap
    /\ i' = 1
    /\ batch' = NoBatch
    /\ created' = FALSE
    /\ UNCHANGED <<nPaths, group, results, error>>

\* The iterator is exhausted: collect returns Ok and main returns Ok(())
\* (lines 30-31).
MainReturnOk ==
    /\ pc = "next"
    /\ fileNo = nPaths
    /\ pc' = "exit_ok"
    /\ UNCHANGED <<nPaths, group, fileNo, rerun, ext, tif_contents, image, data,
                   grouped, i, batch, outFile, created, prevOut, results, error>>

\* -------------------------------------------------------- load_tif_contents

\* n.ends_with(".tif") || n.ends_with(".tiff") (line 128).
IsTifName(n) == n = ".tif" \/ n = ".tiff"

\* The arm of the match of line 122 that the extension selects.
ExtensionArm(e) ==
    IF e = "zip" THEN "archive"
    ELSE IF e = "tif" THEN "plain"
    ELSE IF e = NoExt THEN "none"
    ELSE "other"

\* load_tif_contents(path) given the environment's answers: whether the
\* file operations succeed, the archive's listing and the bytes read.
\* The result is <<"ok", bytes>> or <<"err", message>>.
load_tif_contents(e, ioOk, listing, bytes) ==
    CASE ExtensionArm(e) = "archive" ->
            IF ~ioOk THEN <<"err", <<"io error">>>>
            ELSE LET tif_names == SelectSeq(listing, IsTifName)
                 IN  IF Len(tif_names) = 0
                     THEN <<"err", <<"No tif files found archive">>>>
                     ELSE IF Len(tif_names) = 1
                     THEN <<"ok", bytes>>
                     ELSE <<"err", <<"Multiple tif files found in archive">>>>
      [] ExtensionArm(e) = "plain" ->
            IF ioOk THEN <<"ok", bytes>> ELSE <<"err", <<"io error">>>>
      [] ExtensionArm(e) = "other" -> <<"err", <<"Unexpected file extension", e>>>>
      [] ExtensionArm(e) = "none" -> <<"err", <<"No file extension on">>>>

\* What the environment can answer to one call of load_tif_contents: the
\* file operations fail, or they succeed with an archive listing (for a
\* .zip path) and the bytes read.  A rerun reads the same bytes again.
LoadEnvs ==
    IF rerun
    THEN {[ioOk |-> TRUE, listing |-> <<".tif">>, bytes |-> tif_contents]}
    ELSE IF ExtensionArm(ext) = "archive"
    THEN {[ioOk |-> FALSE, listing |-> <<>>, bytes |-> Garbage]}
         \cup {[ioOk |-> TRUE, listing |-> l, bytes |-> Garbage] :
                 l \in {m \in ZipListings : Len(SelectSeq(m, IsTifName)) # 1}}
         \cup {[ioOk |-> TRUE, listing |-> lb[1], bytes |-> lb[2]] :
                 lb \in {m \in ZipListings : Len(SelectSeq(m, IsTifName)) = 1}
                        \X FileContents}
    ELSE {[ioOk |-> FALSE, listing |-> <<>>, bytes |-> Garbage]}
         \cup {[ioOk |-> TRUE, listing |-> <<>>, bytes |-> b] : b \in FileContents}

\* line 39: let tif_contents = load_tif_contents(input_path.as_path())?
Load ==
    /\ pc = "load"
    /\ \E env \in LoadEnvs :
          LET r == load_tif_contents(ext, env.ioOk, env.listing, env.bytes)
          IN  IF r[1] = "ok"
              THEN /\ tif_contents' = r[2]
                   /\ pc' = "decode"
                   /\ UNCHANGED <<results, error>>
              ELSE /\ Fail(r[2])
                   /\ UNCHANGED tif_contents
    /\ UNCHANGED <<nPaths, group, fileNo, rerun, ext, image, data, grouped, i,
                   batch, outFile, created, prevOut>>

\* ------------------------------------------------------------- process_one

\* lines 42-45: Decoder::new(..)?, decoder.dimensions()?, decoder.read_image()?
Decode ==
    /\ pc = "decode"
    /\ IF tif_contents.dtype = "garbage"
       THEN /\ Fail(<<"decode error">>)
            /\ UNCHANGED image
       ELSE /\ image' = tif_contents
            /\ pc' = "match"
            /\ UNCHANGED <<results, error>>
    /\ UNCHANGED <<nPaths, group, fileNo, rerun, ext, tif_contents, data, grouped,
                   i, batch, outFile, created, prevOut>>

\* A filter that also keeps the zero samples.
KeepNonNegative(value) == value >= 0

\* .filter(|(_, value)| *value > 0) (line 58).
Keep(value) == value > 0

\* .enumerate() (line 57): the 0-based index with each value.
Enumerate(pixels) == [k \in 1..Len(pixels) |-> <<k - 1, pixels[k]>>]

KeepEntry(e) == Keep(e[2])

\* The closure of line 59: (idx % width, idx / width, value).
ToXY(e, width) == <<e[1] % width, e[1] \div width, e[2]>>

\* The closure of lines 60-64; value as f64 is value * Scale on the grid.
Project(p, width, height) ==
    <<lerp(p[1], <<0, width>>, <<-180 * Deg, 180 * Deg>>),
      lerp(p[2], <<0, height>>, <<85 * Deg, -85 * Deg>>),
      p[3] * Scale>>

\* The iterator chain of lines 54-65, collected into data.
FilterProject(pixels, width, height) ==
    LET kept == SelectSeq(Enumerate(pixels), KeepEntry)
    IN  [k \in 1..Len(kept) |-> Project(ToXY(kept[k], width), width, height)]

\* The else branch of line 99: the image is not DecodingResult::I32.
MatchOther ==
    /\ pc = "match"
    /\ image.dtype # "I32"
    /\ Fail(<<"Unexpected image type. Expected I32 but got", image.dtype>>)
    /\ UNCHANGED <<nPaths, group, fileNo, rerun, ext, tif_contents, image, data,
                   grouped, i, batch, outFile, created, prevOut>>

\* lines 47-68: the image is I32; data is collected, and with Some(group)
\* the HashMap is created empty.
Process ==
    /\ pc = "match"
    /\ image.dtype = "I32"
    /\ data' = FilterProject(image.pixels, image.width, image.height)
    /\ grouped' = EmptyMap
    /\ i' = 1
    /\ pc' = IF group = None THEN "columns" ELSE "group"
    /\ UNCHANGED <<nPaths, group, fileNo, rerun, ext, tif_contents, image, batch,
                   outFile, created, prevOut, results, error>>

\* lines 70-71: the key of an observation.
CellIndex(obs, g) == <<FloorDivAsI32(obs[1], g), FloorDivAsI32(obs[2], g)>>

\* line 79: *value * lat.to_radians().cos().
Weighted(value, lat) == (value * cos(to_radians(lat))) \div Scale

\* One iteration of the loop of lines 69-81 on map m.
Accumulate(m, obs, g) ==
    LET key   == CellIndex(obs, g)
        entry == IF key \in DOMAIN m
                 THEN m[key]
                 ELSE <<IndexTimesGroup(key[1], g), IndexTimesGroup(key[2], g), 0>>
        new   == <<entry[1], entry[2], entry[3] + Weighted(obs[3], obs[2])>>
    IN  [k \in DOMAIN m \cup {key} |-> IF k = key THEN new ELSE m[k]]

GroupStep ==
    /\ pc = "group"
    /\ i <= Len(data)
    /\ grouped' = Accumulate(grouped, data[i], group[1])
    /\ i' = i + 1
    /\ UNCHANGED <<nPaths, group, fileNo, rerun, ext, pc, tif_contents, image,
                   data, batch, outFile, created, prevOut, results, error>>

\* The orders in which HashMap::into_values can yield the values of m: the
\* map is hashed with a RandomState seeded anew for every map, so the
\* order is any enumeration of its entries.
IterationOrders(m) ==
    LET keys == DOMAIN m
        n    == Cardinality(keys)
    IN  {[k \in 1..n |-> m[o[k]]] :
           o \in {f \in [1..n -> keys] : \A a, b \in 1..n : f[a] = f[b] => a = b}}

\* line 82: data = grouped.into_values().collect()
IntoValues ==
    /\ pc = "group"
    /\ i > Len(data)
    /\ data' \in IterationOrders(grouped)
    /\ pc' = "columns"
    /\ UNCHANGED <<nPaths, group, fileNo, rerun, ext, tif_contents, image,
                   grouped, i, batch, outFile, created, prevOut, results, error>>

\* lines 85-87: the three columns built from data.
LonCol(d) == [k \in 1..Len(d) |-> AsF32(d[k][2])]
LatCol(d) == [k \in 1..Len(d) |-> AsF32(d[k][1])]
ValueCol(d) == [k \in 1..Len(d) |-> AsF32(d[k][3])]

\* lines 85-93: RecordBatch::try_from_iter of the named columns.
BuildBatch ==
    /\ pc = "columns"
    /\ batch' = [lon |-> LonCol(data), lat |-> LatCol(data), value |-> ValueCol(data)]
    /\ pc' = "create"
    /\ UNCHANGED <<nPaths, group, fileNo, rerun, ext, tif_contents, image, data,
                   grouped, i, outFile, created, prevOut, results, error>>

\* line 95: File::create(..)? creates the output file, or truncates it.
CreateFile ==
    /\ pc = "create"
    /\ \E ok \in BOOLEAN :
          IF ok
          THEN /\ outFile' = [state |-> "empty", table |-> NoBatch]
               /\ created' = TRUE
               /\ pc' = "writer"
               /\ UNCHANGED <<results, error>>
          ELSE /\ Fail(<<"io error">>)
               /\ UNCHANGED <<outFile, created>>
    /\ UNCHANGED <<nPaths, group, fileNo, rerun, ext, tif_contents, image, data,
                   grouped, i, batch, prevOut>>

\* line 96: ArrowWriter::try_new(output_file, batch.schema(), None)?
WriterNew ==
    /\ pc = "writer"
    /\ \E ok \in BOOLEAN :
          IF ok
          THEN /\ outFile' = [state |-> "partial", table |-> NoBatch]
               /\ pc' = "write"
               /\ UNCHANGED <<results, error>>
          ELSE /\ Fail(<<"writer error">>)
               /\ UNCHANGED outFile
    /\ UNCHANGED <<nPaths, group, fileNo, rerun, ext, tif_contents, image, data,
                   grouped, i, batch, created, prevOut>>

\* line 97: writer.write(&batch)?
WriterWrite ==
    /\ pc = "write"
    /\ \E ok \in BOOLEAN :
          IF ok
          THEN /\ pc' = "close"
               /\ UNCHANGED <<results, error>>
          ELSE Fail(<<"writer error">>)
    /\ UNCHANGED <<nPaths, group, fileNo, rerun, ext, tif_contents, image, data,
                   grouped, i, batch, outFile, created, prevOut>>

\* line 98: writer.close()? writes the buffered rows and the footer.
WriterClose ==
    /\ pc = "close"
    /\ \E ok \in BOOLEAN :
          IF ok
          THEN /\ outFile' = [state |-> "closed", table |-> batch]
               /\ pc' = "finish"
               /\ UNCHANGED <<results, error>>
          ELSE /\ Fail(<<"writer error">>)
               /\ UNCHANGED outFile
    /\ UNCHANGED <<nPaths, group, fileNo, rerun, ext, tif_contents, image, data,
                   grouped, i, batch, created, prevOut>>

\* lines 116-117: process_one returns Ok(()); collect takes the next path.
Finish ==
    /\ pc = "finish"
    /\ results' = Append(results, "ok")
    /\ pc' = "next"
    /\ UNCHANGED <<nPaths, group, fileNo, rerun, ext, tif_contents, image, data,
                   grouped, i, batch, outFile, created, prevOut, error>>

Next ==
    \/ MainNext
    \/ MainReturnOk
    \/ Load
    \/ Decode
    \/ MatchOther
    \/ Process
    \/ GroupStep
    \/ IntoValues
    \/ BuildBatch
    \/ CreateFile
    \/ WriterNew
    \/ WriterWrite
    \/ WriterClose
    \/ Finish

Spec == Init /\ [][Next]_vars

\* ------------------------------------------------------------------ claims

RECURSIVE SumSeq(_)
SumSeq(s) == IF s = <<>> THEN 0 ELSE Head(s) + SumSeq(Tail(s))

Width == image.width
Height == image.height
Pixels == image.pixels

\* 0-based indices of the pixels whose value is > 0, and the j-th of them
\* in scan order.
Positive == {k \in 0..(Len(Pixels) - 1) : Pixels[k + 1] > 0}
NthPositive(j) == CHOOSE k \in Positive : Cardinality({m \in Positive : m < k}) = j - 1

Longitude(k) == lerp(k % Width, <<0, Width>>, <<-180 * Deg, 180 * Deg>>)
Latitude(k) == lerp(k \div Width, <<0, Height>>, <<85 * Deg, -85 * Deg>>)

\* An I32 image has been decoded and data holds the output of the filter
\* stage (it is replaced by the cells at line 82).
DataIsFiltered ==
    /\ image.dtype = "I32"
    /\ pc # "match"
    /\ group = None \/ pc = "group"

\* C1: without --group the table has one row per pixel > 0, and the row of
\* the pixel at (x, y) holds its longitude under lon, its latitude under
\* lat and its value unchanged under value.
C1_UngroupedTable ==
    (group = None /\ pc = "create") =>
        /\ Len(batch.lon) = Cardinality(Positive)
        /\ Len(batch.lat) = Cardinality(Positive)
        /\ Len(batch.value) = Cardinality(Positive)
        /\ \A j \in 1..Cardinality(Positive) :
              /\ batch.lon[j] = Longitude(NthPositive(j))
              /\ batch.lat[j] = Latitude(NthPositive(j))
              /\ batch.value[j] = Pixels[NthPositive(j) + 1] * Scale

\* C2: when main returns, every input path has been attempted, whether or
\* not an earlier one failed, and main returns Ok only if every conversion
\* succeeded.
C2_EveryPathAttempted ==
    (pc \in {"exit_ok", "exit_err"}) =>
        /\ fileNo = nPaths
        /\ Len(results) = nPaths
        /\ (pc = "exit_ok") => \A k \in 1..Len(results) : results[k] = "ok"

\* C3: with a bin size g <= 0 the conversion fails with InvalidGroupSize:
\* no cell is created, no output file is created and no conversion succeeds.
C3_InvalidGroupSize ==
    (group # None /\ group[1] <= 0) =>
        /\ DOMAIN grouped = {}
        /\ ~created
        /\ \A k \in 1..Len(results) : results[k] = "err"
        /\ (pc = "exit_err" /\ image.dtype = "I32") => error = <<"InvalidGroupSize">>

\* C4: when process_one has failed, whatever the failing step, its call
\* has created no output file; an image of U8 samples fails with an error
\* naming U8.
C4_NoOutputOnFailure ==
    (pc = "exit_err") =>
        /\ ~created
        /\ (image.dtype = "U8") => (error[2] = "U8")

\* C5: the loader rejects a path for its extension only when the extension
\* is none of tif, tiff and zip; .tif and .tiff paths are read.
C5_ExtensionDispatch ==
    /\ (error[1] \in {"Unexpected file extension", "No file extension on"})
          => ext \notin {"tif", "tiff", "zip"}
    /\ (pc = "decode" /\ ext # "zip") => ext \in {"tif", "tiff"}

\* C6: the filter stage retains the pixel at idx iff its value is > 0;
\* retained plus dropped is width * height; dropped pixels produce no
\* observation; the observations are the retained pixels in scan order.
C6_FilterKeepsPositiveInOrder ==
    DataIsFiltered =>
        LET dropped == {k \in 0..(Len(Pixels) - 1) : ~(Pixels[k + 1] > 0)}
        IN  /\ Len(Pixels) = Width * Height
            /\ Len(data) = Cardinality(Positive)
            /\ Len(data) + Cardinality(dropped) = Width * Height
            /\ \A j \in 1..Len(data) :
                  data[j] = <<Longitude(NthPositive(j)),
                              Latitude(NthPositive(j)),
                              Pixels[NthPositive(j) + 1] * Scale>>

\* C6 witness: an ungrouped run whose filter dropped a zero and a negative
\* pixel and kept two pixels around a dropped one.
C6_Witness ==
    /\ DataIsFiltered
    /\ group = None
    /\ pc = "columns"
    /\ Len(data) = 2
    /\ Pixels = <<2, 0, 2, -1>>

\* The observations the filter stage produced for the current image.
Filtered == FilterProject(Pixels, Width, Height)

\* The observations of Filtered that lie in the cell at anchor (lon, lat)
\* of a grid of bin size g.
InCellAt(obs, lon, lat, g) ==
    /\ lon <= obs[1] /\ obs[1] < lon + g
    /\ lat <= obs[2] /\ obs[2] < lat + g

\* C7: with grouping (g > 0) every cell's value is the plain sum of the
\* values of the observations that fall in it, and the cells' values add
\* up to the sum of the values of all filtered observations.
C7_UnweightedConservation ==
    (group # None /\ group[1] > 0 /\ pc = "columns") =>
        /\ SumSeq([k \in 1..Len(data) |-> data[k][3]])
              = SumSeq([k \in 1..Len(Filtered) |-> Filtered[k][3]])
        /\ \A c \in 1..Len(data) :
              data[c][3] = SumSeq([k \in 1..Len(Filtered) |->
                              IF InCellAt(Filtered[k], data[c][1], data[c][2], group[1])
                              THEN Filtered[k][3] ELSE 0])

\* C8: a second run on the same input with the same options writes the
\* same table as the first: the same rows in the same order.
C8_RerunWritesSameTable ==
    (/\ rerun /\ created /\ outFile.state = "closed"
     /\ group = None \/ group[1] > 0) => outFile.table = prevOut

\* C9: lerp is the linear map sending d0 to r0 and d1 to r1, also for a
\* reversed range; in the pipeline x = 0 gives -180 and x = width gives 180,
\* y = 0 gives 85 and y = height gives -85; longitudes grow strictly with
\* the column and lie in [-180, 180), latitudes fall strictly with the row
\* and lie in (-85, 85].
C9_LerpLinearMonotonic ==
    (image.dtype = "I32") =>
        LET lon(x) == lerp(x, <<0, Width>>, <<-180 * Deg, 180 * Deg>>)
            lat(y) == lerp(y, <<0, Height>>, <<85 * Deg, -85 * Deg>>)
        IN  /\ lon(0) = -180 * Deg /\ lon(Width) = 180 * Deg
            /\ lat(0) = 85 * Deg /\ lat(Height) = -85 * Deg
            /\ \A x \in 0..Width : Width * (lon(x) + 180 * Deg) = x * 360 * Deg
            /\ \A y \in 0..Height : Height * (lat(y) - 85 * Deg) = -(y * 170 * Deg)
            /\ \A x1, x2 \in 0..(Width - 1) : x1 < x2 => lon(x1) < lon(x2)
            /\ \A x1 \in 0..(Width - 1) : -180 * Deg <= lon(x1) /\ lon(x1) < 180 * Deg
            /\ \A y1, y2 \in 0..(Height - 1) : y1 < y2 => lat(y1) > lat(y2)
            /\ \A y1 \in 0..(Height - 1) : -85 * Deg < lat(y1) /\ lat(y1) <= 85 * Deg
            /\ \A d \in {<<0, Width>>, <<Width, 0>>, <<-Height, Width>>} :
                  \A r \in {<<-10, 10>>, <<100, 0>>, <<Height, Height>>} :
                     /\ lerp(d[1], d, r) = r[1]
                     /\ lerp(d[2], d, r) = r[2]
            \* tests::test_lerp and tests::test_lerp_reverse, in hundredths
            /\ lerp(50, <<0, 100>>, <<-1000, 1000>>) = 0
            /\ lerp(20, <<0, 200>>, <<-300, 500>>) = -220
            /\ lerp(75, <<-100, 100>>, <<-1000, 1000>>) = 750
            /\ lerp(10, <<0, 100>>, <<10000, 0>>) = 9000
            /\ lerp(90, <<0, 100>>, <<10000, 0>>) = 1000
            /\ DataIsFiltered =>
                  \A j \in 1..Len(data) :
                     /\ -180 * Deg <= data[j][1] /\ data[j][1] < 180 * Deg
                     /\ -85 * Deg < data[j][2] /\ data[j][2] <= 85 * Deg
                     /\ \A k \in 1..Len(data) :
                           /\ (data[j][2] = data[k][2] /\ j < k) => data[j][1] < data[k][1]
                           /\ j < k => data[j][2] >= data[k][2]

\* C9 witness: a 2 x 2 raster all of whose pixels were kept and projected.
C9_Witness ==
    /\ DataIsFiltered
    /\ Width = 2 /\ Height = 2
    /\ Len(data) = 4
    /\ data[1][1] < data[2][1]
    /\ data[1][2] > data[3][2]

\* floor(c / g) for g > 0, stated without the division: the q with
\* q * g <= c < (q + 1) * g.
FloorOf(c, g) == CHOOSE q \in -3..3 : q * g <= c /\ c < (q + 1) * g

FloorPair(obs, g) == <<FloorOf(obs[1], g), FloorOf(obs[2], g)>>

====
